---- MODULE Spec2Model ----
(***************************************************************************)
(* Thouless-Anderson-Palmer reconstruction                                 *)
(* (netrd/reconstruction/thouless_anderson_palmer.py).                     *)
(*                                                                         *)
(* Real numbers are exact rationals <<n, d>> in lowest terms with d > 0.   *)
(* Vectors and matrices are functions over 0-based index ranges, as in the *)
(* source: ts[i][t] is node i at time t, M[p][q] is row p, column q.       *)
(***************************************************************************)
EXTENDS Integers, Sequences, FiniteSets, TLC

\* ------------------------------------------------------------------ bounds

\* largest number of observations T of an enumerated time series
MaxT == 4
\* largest number of observations of a series given to repeated calls
MaxTCalls == 3
\* number of nodes of the synthetic temp vectors fed to the TAP scan
NScan == 2
\* largest number of fit calls made on one reconstructor instance
MaxCalls == 2

\* --------------------------------------------------------- exact arithmetic

Abs(a) == IF a < 0 THEN -a ELSE a

RECURSIVE Gcd(_, _)
Gcd(a, b) == IF b = 0 THEN a ELSE Gcd(b, a % b)

\* the rational n/d (d # 0) in lowest terms with a positive denominator
Rat(n, d) ==
    LET g == Gcd(Abs(n), Abs(d))
        s == IF d < 0 THEN -1 ELSE 1
    IN  <<s * (n \div g), s * (d \div g)>>

RInt(n) == <<n, 1>>
Zero == RInt(0)
One == RInt(1)

RNeg(p) == <<-p[1], p[2]>>

RAdd(p, q) ==
    LET g == Gcd(p[2], q[2])
    IN  Rat(p[1] * (q[2] \div g) + q[1] * (p[2] \div g), (p[2] \div g) * q[2])

RSub(p, q) == RAdd(p, RNeg(q))

RMul(p, q) ==
    LET g1 == Gcd(Abs(p[1]), q[2])
        g2 == Gcd(Abs(q[1]), p[2])
    IN  <<(p[1] \div g1) * (q[1] \div g2), (p[2] \div g2) * (q[2] \div g1)>>

\* 1/p for p # 0
RInv(p) == IF p[1] < 0 THEN <<-p[2], -p[1]>> ELSE <<p[2], p[1]>>

RDiv(p, q) == RMul(p, RInv(q))

RSq(p) == RMul(p, p)

\* floor of a rational (Python int() of a non-negative float)
RFloor(p) == p[1] \div p[2]

\* a/b < c/d for naturals a, c and positive b, d, by continued fractions
\* (no cross product is formed, so no operand outgrows the machine integer)
RECURSIVE NatFracLess(_, _, _, _)
NatFracLess(a, b, c, d) ==
    LET qa == a \div b
        qc == c \div d
        ra == a % b
        rc == c % d
    IN  IF qa # qc THEN qa < qc
        ELSE IF rc = 0 THEN FALSE
        ELSE IF ra = 0 THEN TRUE
        ELSE NatFracLess(d, rc, b, ra)

\* p < q
RLess(p, q) ==
    IF p[1] < 0 /\ q[1] >= 0 THEN TRUE
    ELSE IF p[1] >= 0 /\ q[1] < 0 THEN FALSE
    ELSE IF p[1] >= 0 THEN NatFracLess(p[1], p[2], q[1], q[2])
    ELSE NatFracLess(-q[1], q[2], -p[1], p[2])

RLeq(p, q) == ~RLess(q, p)

\* sum of f[0] .. f[n-1]
RECURSIVE RSum(_, _)
RSum(f, n) == IF n = 0 THEN Zero ELSE RAdd(RSum(f, n - 1), f[n - 1])

\* ------------------------------------------------------------ numpy helpers

\* number of rows of a 2-D array held as a function 0..rows-1 -> row
Shape0(a) == Cardinality(DOMAIN a)

\* np.mean(a, axis=0): the mean of every column of a
MeanAxis0(a, cols) ==
    [p \in cols |-> RDiv(RSum([t \in DOMAIN a |-> a[t][p]], Shape0(a)),
                         RInt(Shape0(a)))]

\* a - np.mean(a, axis=0)
Centered(a, cols) ==
    LET mu == MeanAxis0(a, cols)
    IN  [t \in DOMAIN a |-> [p \in cols |-> RSub(a[t][p], mu[p])]]

\* np.matmul(da.T, db)
MatmulT(da, db, cols) ==
    [p \in cols |-> [q \in cols |->
        RSum([t \in DOMAIN da |-> RMul(da[t][p], db[t][q])], Shape0(da))]]

\* np.dot of two square matrices
Dot(X, Y, cols) ==
    [p \in cols |-> [q \in cols |->
        RSum([k \in cols |-> RMul(X[p][k], Y[k][q])], Cardinality(cols))]]

\* np.dot(np.diag(v), Y)
DiagDot(v, Y, cols) == [p \in cols |-> [q \in cols |-> RMul(v[p], Y[p][q])]]

\* ------------------------------------------------- fit, statement by statement

Unset == <<>>

\* N, t = np.shape(ts)
NodesOf(s) == DOMAIN s
LenOf(s) == Cardinality(DOMAIN s[0])

\* m = np.mean(ts, axis=1)
MeanAxis1(s) ==
    [n \in NodesOf(s) |->
        RDiv(RSum([t \in DOMAIN s[n] |-> RInt(s[n][t])], Cardinality(DOMAIN s[n])),
             RInt(Cardinality(DOMAIN s[n])))]

\* A = 1 - m**2 (the diagonal, kept as a vector)
AOf(m) == [n \in DOMAIN m |-> RSub(One, RSq(m[n]))]

\* A_inv = np.diag(1/A); 1/0 is numpy's inf, held as <<1, 0>> and never
\* used in arithmetic (a node with A = 0 is constant here, so C is singular)
AInvOf(A) == [n \in DOMAIN A |-> RInv(A[n])]

\* ds = ts.T - m
DsOf(s, m) ==
    [t \in DOMAIN s[0] |-> [n \in NodesOf(s) |-> RSub(RInt(s[n][t]), m[n])]]

\* C = np.cov(ds, rowvar=False, bias=True): normalised by the T observations
NpCovBias(ds, cols) ==
    LET c == Centered(ds, cols)
        S == MatmulT(c, c, cols)
    IN  [p \in cols |-> [q \in cols |-> RDiv(S[p][q], RInt(Shape0(ds)))]]

\* determinant of a 2x2 matrix
Det2(C) == RSub(RMul(C[0][0], C[1][1]), RMul(C[0][1], C[1][0]))

\* linalg.inv(C) raises LinAlgError exactly when C is singular
IsSingular(C) == Det2(C) = Zero

\* C_inv = linalg.inv(C) for an invertible 2x2 matrix
Inv2(C) ==
    LET d == Det2(C)
    IN  (0 :> (0 :> RDiv(C[1][1], d) @@ 1 :> RDiv(RNeg(C[0][1]), d)) @@
         1 :> (0 :> RDiv(RNeg(C[1][0]), d) @@ 1 :> RDiv(C[0][0], d)))

\* s1 = ts[:,1:] ; ds1 = s1.T - np.mean(s1, axis=1)
S1Of(s) == [n \in NodesOf(s) |-> [t \in 0..(LenOf(s) - 2) |-> s[n][t + 1]]]
Ds1Of(s) == DsOf(S1Of(s), MeanAxis1(S1Of(s)))

\* ds[:-1]
DropLast(ds) == [t \in 0..(Shape0(ds) - 2) |-> ds[t]]

\* faulty variant of cross_cov: normalised by the T observations of the full series
cross_covByT(a, b, cols) ==
    LET da == Centered(a, cols)
        db == Centered(b, cols)
        S == MatmulT(da, db, cols)
    IN  [p \in cols |-> [q \in cols |-> RDiv(S[p][q], RInt(Shape0(a) + 1))]]

\* cross_cov(a, b): np.matmul(da.T, db) / a.shape[0]
cross_cov(a, b, cols) ==
    LET da == Centered(a, cols)
        db == Centered(b, cols)
        S == MatmulT(da, db, cols)
    IN  [p \in cols |-> [q \in cols |-> RDiv(S[p][q], RInt(Shape0(a)))]]

\* W2_NMF = W_NMF**2
SquareAll(M) == [p \in DOMAIN M |-> [q \in DOMAIN M[p] |-> RSq(M[p][q])]]

\* temp[i] = (1 - m[i]**2) * np.sum( W2_NMF[i,:] * (1 - m[:]**2) )
TempOf(n, W2, m) ==
    RMul(RSub(One, RSq(m[n])),
         RSum([j \in DOMAIN m |-> RMul(W2[n][j], RSub(One, RSq(m[j])))],
              Cardinality(DOMAIN m)))

\* faulty variant of step: step = 0.01
stepCoarse == Rat(1, 100)

\* step = 0.001
step == Rat(1, 1000)

\* faulty variant of nloop: the scan bound taken as 0.34
nloopWide == RFloor(RDiv(Rat(34, 100), step)) + 2

\* nloop = int(0.33/step) + 2
nloop == RFloor(RDiv(Rat(33, 100), step)) + 2

\* faulty variant of XAt: the scan starts one step above 0
XAtNext(k) == RMul(RInt(k + 1), step)

\* x = iloop * step
XAt(k) == RMul(RInt(k), step)

\* 10**9: y is held in units of 10**-9, the resolution of x * (1-x)**2 on
\* the grid of step
Nano == 1000 * 1000 * 1000

\* floor(v * f) for a natural f and v = q + r/e held as <<q, r>>
ScaleBy(qr, e, f) == <<qr[1] * f + (qr[2] * f) \div e, (qr[2] * f) % e>>

\* <<floor, remainder>> of (n/e) * 2**a * 5**b, for naturals n, e > 0
RECURSIVE ScaledDiv(_, _, _, _)
ScaledDiv(qr, e, a, b) ==
    IF a > 0 THEN ScaledDiv(ScaleBy(qr, e, 2), e, a - 1, b)
    ELSE IF b > 0 THEN ScaledDiv(ScaleBy(qr, e, 5), e, a, b - 1)
    ELSE qr

RECURSIVE Log(_, _)
Log(n, base) == IF n % base = 0 THEN 1 + Log(n \div base, base) ELSE 0

\* ceiling(t * 10**9) for a rational t, saturated at -2 and 2
CeilNano(t) ==
    IF t[1] >= 2 * t[2] THEN 2 * Nano
    ELSE IF -t[1] >= 2 * t[2] THEN -2 * Nano
    ELSE LET g == Gcd(Nano, t[2])
             e == t[2] \div g
             M == Nano \div g
             qr == ScaledDiv(<<Abs(t[1]) \div e, Abs(t[1]) % e>>, e, Log(M, 2), Log(M, 5))
         IN  IF t[1] < 0 THEN -qr[1]
             ELSE IF qr[2] = 0 THEN qr[1] ELSE qr[1] + 1

\* x * (1-x)**2 in units of 10**-9 (an integer for every x on the grid of step)
Cubic(xx) ==
    xx[1] * (xx[2] - xx[1]) * (xx[2] - xx[1])
          * ((1000 \div xx[2]) * (1000 \div xx[2]) * (1000 \div xx[2]))

\* y is held as floor(y * 10**9), which is negative exactly when y is;
\* y = -1. is -10**9
YInit == -Nano

\* y = x * (1-x)**2 - temp[i], tn being temp[i] in units of 10**-9
YAt(xx, tn) == Cubic(xx) - tn

\* y < 0
YNeg(yy) == yy < 0

\* faulty variant of LoopCond: iloop <= nloop
LoopCondOffByOne(yy, k) == YNeg(yy) /\ k <= nloop

\* while y < 0 and iloop < nloop
LoopCond(yy, k) == YNeg(yy) /\ k < nloop

Min(S) == CHOOSE a \in S : \A b \in S : a <= b

\* y as the loop condition finds it with iloop = k, the loop being entered
\* with y = y0 and iloop = 0
YBefore(k, y0, tn) == IF k = 0 THEN y0 ELSE YAt(XAt(k - 1), tn)

\* the while loop of one node run to its end: the iloop it is left with,
\* the first at which the loop condition fails
ExitIloop(y0, t) ==
    LET tn == CeilNano(t)
    IN  Min({k \in 0..nloop : ~LoopCond(YBefore(k, y0, tn), k)})

\* x after the while loop entered with x = xx: the last x the body assigned,
\* or xx itself when the body never ran
ScanLoop(xx, y0, t) ==
    LET k == ExitIloop(y0, t)
    IN  IF k = 0 THEN xx ELSE XAt(k - 1)

\* the for loop over the nodes n, n+1, .. run to its end: x survives from one
\* node to the next, y and iloop are reset, F[n] = x
RECURSIVE TapNodes(_, _, _, _, _)
TapNodes(n, xx, W2, m, acc) ==
    IF n \notin DOMAIN m THEN acc
    ELSE LET xn == ScanLoop(xx, YInit, TempOf(n, W2, m))
         IN  TapNodes(n + 1, xn, W2, m, acc @@ (n :> xn))

\* F as left by lines 82-92 (x is unbound before the first node)
TapF(W2, m) == TapNodes(0, Unset, W2, m, <<>>)

\* A_TAP[i] = A[i,i] * (1 - F[i])
ATapOf(A, FF) == [n \in DOMAIN A |-> RMul(A[n], RSub(One, FF[n]))]

\* the graph object nx.from_numpy_array(W) builds: a fresh object (obj) whose
\* edge weights are the entries of W
FromNumpyArray(W, id) == [obj |-> id, weights |-> W]

\* -------------------------------------------------------------------- state

VARIABLES
    pc,       \* the statement of fit the call stands at ("idle": no call runs)
    ts,       \* the argument of the running (or last) call
    loc,      \* the matrix-valued locals of fit: m, A, A_inv, ds, C, C_inv, ...
    temp,     \* temp, filled node by node
    F,        \* F, filled node by node
    i,        \* the for-loop index of lines 82-92
    x, y, iloop,  \* the scan locals of lines 85-90 (x unbound, y and iloop 0
              \* until their first assignment)
    par,      \* per-node copies of x, y, iloop for the node-parallel scan
    results,  \* self.results
    ret,      \* what the last call handed its caller: a graph or an exception
    calls,    \* number of fit calls made on the instance
    pre       \* self.results as it was when the running call was entered

vars == <<pc, ts, loc, temp, F, i, x, y, iloop, par, results, ret, calls, pre>>

scanVars == <<temp, F, i, x, y, iloop>>

\* no local assigned yet
NoLocals ==
    [m |-> Unset, A |-> Unset, A_inv |-> Unset, ds |-> Unset, C |-> Unset,
     C_inv |-> Unset, ds1 |-> Unset, D |-> Unset, B |-> Unset, W_NMF |-> Unset,
     W2_NMF |-> Unset, A_TAP |-> Unset, W |-> Unset]

\* self.results of a fresh reconstructor: no entry stored yet
NoGraph == [obj |-> 0, weights |-> Unset]
EmptyResults == [graph |-> NoGraph, matrix |-> Unset]

\* what a call hands its caller: nothing yet, the returned graph, or the
\* exception that left fit
Pending == [kind |-> "pending", graph |-> NoGraph, error |-> ""]
Returned(G) == [kind |-> "return", graph |-> G, error |-> ""]
Raised(e) == [kind |-> "raise", graph |-> NoGraph, error |-> e]
LinAlgError == "LinAlgError"

\* ------------------------------------------------------------------- inputs

\* a node's observations 0..T-1 over vals, the first one being -1
Rows(vals, T) == {r \in [0..(T - 1) -> vals] : r[0] = -1}

\* the two-node time series of 2..maxT observations over vals
Series(vals, maxT) == UNION {[0..1 -> Rows(vals, T)] : T \in 2..maxT}

FitInputs == Series({-1, 0, 1}, MaxT)
CallInputs == Series({-1, 1}, MaxTCalls)

\* synthetic values of temp[i]: negative, zero, small, the largest scanned
\* value 0.331 * 0.669**2, between it and 4/27, 4/27, above 4/27, huge
TempValues ==
    {Rat(-1, 2), Zero, Rat(1, 1000000), Rat(1, 100), Rat(148142691, 1000000000),
     Rat(148145, 1000000), Rat(4, 27), Rat(3, 20), RInt(1000)}

\* those with a short scan
ShortTempValues == {Rat(-1, 2), Zero, Rat(1, 1000000), Rat(1, 100)}

ScanNodes == 0..(NScan - 1)

\* a W2_NMF and an m under which line 83 yields temp[n] = t[n]
SyntheticW2(t) == [p \in DOMAIN t |-> [q \in DOMAIN t |-> IF p = q THEN t[p] ELSE Zero]]
SyntheticM(t) == [p \in DOMAIN t |-> Zero]

\* -------------------------------------------------------------- fit: actions

\* faulty variant of FitCall: the call empties self.results on entry
FitCallClearing(inputs, limit) ==
    /\ pc = "idle"
    /\ calls < limit
    /\ \E s \in inputs : ts' = s
    /\ pc' = "moments"
    /\ calls' = calls + 1
    /\ pre' = results
    /\ results' = EmptyResults
    /\ loc' = NoLocals
    /\ temp' = <<>> /\ F' = <<>> /\ i' = 0
    /\ x' = Unset /\ y' = 0 /\ iloop' = 0
    /\ ret' = Pending
    /\ UNCHANGED par

\* fit(ts) is called on the instance
FitCall(inputs, limit) ==
    /\ pc = "idle"
    /\ calls < limit
    /\ \E s \in inputs : ts' = s
    /\ pc' = "moments"
    /\ calls' = calls + 1
    /\ pre' = results
    /\ loc' = NoLocals
    /\ temp' = <<>> /\ F' = <<>> /\ i' = 0
    /\ x' = Unset /\ y' = 0 /\ iloop' = 0
    /\ ret' = Pending
    /\ UNCHANGED <<par, results>>

\* lines 51-60: m, A, A_inv, ds, C
FitMoments ==
    /\ pc = "moments"
    /\ LET mm == MeanAxis1(ts)
           dd == DsOf(ts, mm)
       IN  loc' = [loc EXCEPT !.m = mm, !.A = AOf(mm), !.A_inv = AInvOf(AOf(mm)),
                              !.ds = dd, !.C = NpCovBias(dd, NodesOf(ts))]
    /\ pc' = "inv"
    /\ UNCHANGED <<ts, scanVars, par, results, ret, calls, pre>>

\* line 61, C invertible
FitInv ==
    /\ pc = "inv"
    /\ ~IsSingular(loc.C)
    /\ loc' = [loc EXCEPT !.C_inv = Inv2(loc.C)]
    /\ pc' = "lagged"
    /\ UNCHANGED <<ts, scanVars, par, results, ret, calls, pre>>

\* line 61, C singular: linalg.inv raises, nothing in fit catches it
FitInvRaise ==
    /\ pc = "inv"
    /\ IsSingular(loc.C)
    /\ ret' = Raised(LinAlgError)
    /\ pc' = "idle"
    /\ UNCHANGED <<ts, loc, scanVars, par, results, calls, pre>>

\* faulty variant of FitLagged: ds[1:] in place of ds[:-1], the two series unlagged
FitLaggedNoLag ==
    /\ pc = "lagged"
    /\ LET d1 == Ds1Of(ts)
           late == [t \in 0..(Shape0(loc.ds) - 2) |-> loc.ds[t + 1]]
       IN  loc' = [loc EXCEPT !.ds1 = d1, !.D = cross_cov(d1, late, NodesOf(ts))]
    /\ pc' = "nmf"
    /\ UNCHANGED <<ts, scanVars, par, results, ret, calls, pre>>

\* lines 63-65: s1, ds1, D
FitLagged ==
    /\ pc = "lagged"
    /\ LET d1 == Ds1Of(ts)
       IN  loc' = [loc EXCEPT !.ds1 = d1,
                              !.D = cross_cov(d1, DropLast(loc.ds), NodesOf(ts))]
    /\ pc' = "nmf"
    /\ UNCHANGED <<ts, scanVars, par, results, ret, calls, pre>>

\* lines 68-69: B, W_NMF
FitNMF ==
    /\ pc = "nmf"
    /\ LET BB == Dot(loc.D, loc.C_inv, NodesOf(ts))
       IN  loc' = [loc EXCEPT !.B = BB, !.W_NMF = DiagDot(loc.A_inv, BB, NodesOf(ts))]
    /\ pc' = "tap"
    /\ UNCHANGED <<ts, scanVars, par, results, ret, calls, pre>>

\* lines 74-92 run as one step: W2_NMF, then temp and F of every node (the
\* scan locals x, y, iloop, i end with the step and are not kept)
FitTAP ==
    /\ pc = "tap"
    /\ LET W2 == SquareAll(loc.W_NMF)
       IN  /\ loc' = [loc EXCEPT !.W2_NMF = W2]
           /\ temp' = [n \in NodesOf(ts) |-> TempOf(n, W2, loc.m)]
           /\ F' = TapF(W2, loc.m)
    /\ pc' = "assemble"
    /\ UNCHANGED <<ts, i, x, y, iloop, par, results, ret, calls, pre>>

\* lines 95-102: A_TAP, A_TAP_inv, W
FitAssemble ==
    /\ pc = "assemble"
    /\ LET AT == ATapOf(loc.A, F)
       IN  loc' = [loc EXCEPT !.A_TAP = AT,
                              !.W = DiagDot([n \in DOMAIN AT |-> RInv(AT[n])],
                                            loc.B, NodesOf(ts))]
    /\ pc' = "store_graph"
    /\ UNCHANGED <<ts, scanVars, par, results, ret, calls, pre>>

\* faulty variant of FitStoreGraph: the graph is built from W_NMF
FitStoreGraphFromNMF ==
    /\ pc = "store_graph"
    /\ results' = [results EXCEPT !.graph = FromNumpyArray(loc.W_NMF, calls)]
    /\ pc' = "store_matrix"
    /\ UNCHANGED <<ts, loc, scanVars, par, ret, calls, pre>>

\* line 105: self.results['graph'] = nx.from_numpy_array(W)
FitStoreGraph ==
    /\ pc = "store_graph"
    /\ results' = [results EXCEPT !.graph = FromNumpyArray(loc.W, calls)]
    /\ pc' = "store_matrix"
    /\ UNCHANGED <<ts, loc, scanVars, par, ret, calls, pre>>

\* line 106: self.results['matrix'] = W
FitStoreMatrix ==
    /\ pc = "store_matrix"
    /\ results' = [results EXCEPT !.matrix = loc.W]
    /\ pc' = "return"
    /\ UNCHANGED <<ts, loc, scanVars, par, ret, calls, pre>>

\* lines 107-109: G = self.results['graph'] ; return G
FitReturn ==
    /\ pc = "return"
    /\ ret' = Returned(results.graph)
    /\ pc' = "idle"
    /\ UNCHANGED <<ts, loc, scanVars, par, results, calls, pre>>

FitBody ==
    \/ FitMoments
    \/ FitInv
    \/ FitInvRaise
    \/ FitLagged
    \/ FitNMF
    \/ FitTAP
    \/ FitAssemble
    \/ FitStoreGraph
    \/ FitStoreMatrix
    \/ FitReturn

InitFit ==
    /\ pc = "idle"
    /\ ts = Unset
    /\ loc = NoLocals
    /\ temp = <<>> /\ F = <<>> /\ i = 0
    /\ x = Unset /\ y = 0 /\ iloop = 0
    /\ par = <<>>
    /\ results = EmptyResults
    /\ ret = Pending
    /\ calls = 0
    /\ pre = EmptyResults

\* one call on a fresh instance, over the three-valued series
FitOnce == FitCall(FitInputs, 1)
NextFit == FitOnce \/ FitBody
SpecFit == InitFit /\ [][NextFit]_vars

\* up to MaxCalls calls on one instance, over the two-valued series
FitAgain == FitCall(CallInputs, MaxCalls)
NextCalls == FitAgain \/ FitBody
SpecCalls == InitFit /\ [][NextCalls]_vars

\* ------------------------------------ lines 82-92, statement by statement

\* the nodes of the running scan
N == Cardinality(DOMAIN loc.m)

\* faulty variant of NodeBegin: y = -1. set once, before the for loop
NodeBeginYOnce ==
    /\ pc = "for"
    /\ i < N
    /\ temp' = temp @@ (i :> TempOf(i, loc.W2_NMF, loc.m))
    /\ y' = IF i = 0 THEN YInit ELSE y
    /\ iloop' = 0
    /\ pc' = "while"
    /\ UNCHANGED <<ts, loc, F, i, x, par, results, ret, calls, pre>>

\* line 82 entered with i < N, lines 83 and 85: temp[i], y = -1., iloop = 0
NodeBegin ==
    /\ pc = "for"
    /\ i < N
    /\ temp' = temp @@ (i :> TempOf(i, loc.W2_NMF, loc.m))
    /\ y' = YInit
    /\ iloop' = 0
    /\ pc' = "while"
    /\ UNCHANGED <<ts, loc, F, i, x, par, results, ret, calls, pre>>

\* lines 87-90: the loop condition holds, the body runs once
ScanStep ==
    /\ pc = "while"
    /\ LoopCond(y, iloop)
    /\ x' = XAt(iloop)
    /\ y' = YAt(XAt(iloop), CeilNano(temp[i]))
    /\ iloop' = iloop + 1
    /\ UNCHANGED <<pc, ts, loc, temp, F, i, par, results, ret, calls, pre>>

\* line 87 with the loop condition false, line 92: F[i] = x, next node
NodeEnd ==
    /\ pc = "while"
    /\ ~LoopCond(y, iloop)
    /\ F' = F @@ (i :> x)
    /\ i' = i + 1
    /\ pc' = "for"
    /\ UNCHANGED <<ts, loc, temp, x, y, iloop, par, results, ret, calls, pre>>

\* line 82 with range(N) exhausted
ForEnd ==
    /\ pc = "for"
    /\ i = N
    /\ pc' = "scanned"
    /\ UNCHANGED <<ts, loc, scanVars, par, results, ret, calls, pre>>

\* fit as it stands at line 82 with the synthetic temp values t
AtLoop(t) ==
    /\ ts = Unset
    /\ loc = [NoLocals EXCEPT !.m = SyntheticM(t), !.W2_NMF = SyntheticW2(t)]
    /\ temp = <<>> /\ F = <<>> /\ i = 0
    /\ x = Unset /\ y = 0 /\ iloop = 0
    /\ results = EmptyResults
    /\ ret = Pending
    /\ calls = 1
    /\ pre = EmptyResults

InitScan ==
    /\ pc = "for"
    /\ par = <<>>
    /\ \E t \in [ScanNodes -> TempValues] : AtLoop(t)

NextScan == NodeBegin \/ ScanStep \/ NodeEnd \/ ForEnd
SpecScan == InitScan /\ [][NextScan]_vars

\* ------------------------- lines 82-92 with one task per node (section 5)

\* node n's task has not started / is in its while loop / has stored F[n]
ParIdle == [at |-> "begin", x |-> Unset, y |-> 0, iloop |-> 0]

\* lines 83, 85 for node n
ParBegin(n) ==
    /\ pc = "par"
    /\ par[n].at = "begin"
    /\ temp' = temp @@ (n :> TempOf(n, loc.W2_NMF, loc.m))
    /\ par' = [par EXCEPT ![n].at = "while", ![n].y = YInit, ![n].iloop = 0]
    /\ UNCHANGED <<pc, ts, loc, F, i, x, y, iloop, results, ret, calls, pre>>

\* lines 87-90 for node n
ParStep(n) ==
    /\ pc = "par"
    /\ par[n].at = "while"
    /\ LoopCond(par[n].y, par[n].iloop)
    /\ par' = [par EXCEPT ![n].x = XAt(par[n].iloop),
                          ![n].y = YAt(XAt(par[n].iloop), CeilNano(temp[n])),
                          ![n].iloop = par[n].iloop + 1]
    /\ UNCHANGED <<pc, ts, loc, scanVars, results, ret, calls, pre>>

\* line 92 for node n
ParEnd(n) ==
    /\ pc = "par"
    /\ par[n].at = "while"
    /\ ~LoopCond(par[n].y, par[n].iloop)
    /\ F' = F @@ (n :> par[n].x)
    /\ par' = [par EXCEPT ![n].at = "done"]
    /\ UNCHANGED <<pc, ts, loc, temp, i, x, y, iloop, results, ret, calls, pre>>

\* every task has ended
ParJoin ==
    /\ pc = "par"
    /\ \A n \in DOMAIN par : par[n].at = "done"
    /\ pc' = "scanned"
    /\ UNCHANGED <<ts, loc, scanVars, par, results, ret, calls, pre>>

\* temp vectors of the node-parallel runs: any value for node 0, a short scan
\* for the others
ParTemps == {t \in [ScanNodes -> TempValues] :
                \A n \in ScanNodes \ {0} : t[n] \in ShortTempValues}

InitPar ==
    \/ InitScan
    \/ /\ pc = "par"
       /\ par = [n \in ScanNodes |-> ParIdle]
       /\ \E t \in ParTemps : AtLoop(t)

NextPar ==
    \/ NextScan
    \/ \E n \in ScanNodes : ParBegin(n)
    \/ \E n \in ScanNodes : ParStep(n)
    \/ \E n \in ScanNodes : ParEnd(n)
    \/ ParJoin
SpecPar == InitPar /\ [][NextPar]_vars

\* =================================================================== claims

\* the while loop of the sequential scan has just been left (line 92 is next)
LoopLeft == pc = "while" /\ ~LoopCond(y, iloop)

\* the value x * (1-x)**2 takes at the grid point k * 0.001
GridValue(k) == Rat(k * (1000 - k) * (1000 - k), Nano)

\* the grid points k * 0.001, k in 0..331, with x * (1-x)**2 >= t
GridRoots(t) == {k \in 0..331 : RLeq(t, GridValue(k))}

\* C1: every F[i] the scan assigns satisfies 0 <= F[i] <= 0.332, whatever
\* temp[i] is (negative, zero, small or huge).
InvC1 == \A n \in DOMAIN F : RLeq(Zero, F[n]) /\ RLeq(F[n], Rat(332, 1000))

\* a scan that stored F for a negative and for a huge temp
WitC1 ==
    /\ pc = "scanned"
    /\ \E n \in DOMAIN F : temp[n] = Rat(-1, 2) /\ F[n] = Zero
    /\ \E n \in DOMAIN F : temp[n] = RInt(1000) /\ F[n] = Rat(331, 1000)

\* C2 (as claimed): whenever temp[i] >= 0, the F[i] that fit computes lies
\* strictly inside (0, 1).
ClaimC2 ==
    \A n \in DOMAIN F : RLeq(Zero, temp[n]) => (RLess(Zero, F[n]) /\ RLess(F[n], One))

\* C3: a node's loop evaluates y at most 332 times; when temp[i] > 4/27 it
\* is left after exactly 332 evaluations with x = 0.331, which is what F[i]
\* becomes.
InvC3 ==
    /\ iloop <= 332
    /\ (LoopLeft /\ RLess(Rat(4, 27), temp[i])) => (iloop = 332 /\ x = Rat(331, 1000))
    /\ \A n \in DOMAIN F : RLess(Rat(4, 27), temp[n]) => F[n] = Rat(331, 1000)

\* a node with temp = 0.15 > 4/27 was scanned to the end
WitC3 ==
    /\ pc = "for"
    /\ i > 0
    /\ temp[i - 1] = Rat(3, 20)
    /\ iloop = 332
    /\ F[i - 1] = Rat(331, 1000)

\* C4: if some grid point x_k = k * 0.001, k in 0..331, has
\* x_k * (1 - x_k)**2 >= temp[i], then F[i] is the smallest such x_k.
InvC4 ==
    pc \in {"for", "scanned"} =>
        \A n \in DOMAIN F :
            GridRoots(temp[n]) # {} => F[n] = Rat(Min(GridRoots(temp[n])), 1000)

\* temp = 0.01 was scanned: 0.011 is the first grid point reaching it
WitC4 ==
    /\ pc = "scanned"
    /\ \E n \in DOMAIN F : temp[n] = Rat(1, 100) /\ F[n] = Rat(11, 1000)

\* C5: with the nodes scanned one after the other (x, y, iloop shared) or by
\* one task per node interleaved step by step (each with its own x, y,
\* iloop), every F[i] is the value the loop yields for temp[i] alone, entered
\* with x unbound; and no loop is left before its body has run once.
InvC5 ==
    /\ pc = "scanned" => \A n \in DOMAIN temp : F[n] = ScanLoop(Unset, YInit, temp[n])
    /\ LoopLeft => iloop >= 1
    /\ \A n \in DOMAIN par :
          (par[n].at = "while" /\ ~LoopCond(par[n].y, par[n].iloop)) => par[n].iloop >= 1

\* two tasks both in the middle of their scans, node 0 on its way to saturation
WitC5 ==
    /\ pc = "par"
    /\ par[0].at = "while" /\ par[0].iloop = 200
    /\ par[1].at = "while" /\ par[1].iloop = 5

\* the sum over the T-1 aligned samples t of
\* (ts[p][t+1] - mean(ts[p][1:])) * (ts[q][t] - mean(ts[q][:-1])), from ts
LagSum(s, p, q) ==
    LET n == LenOf(s) - 1
        mu1 == RDiv(RSum([t \in 0..(n - 1) |-> RInt(s[p][t + 1])], n), RInt(n))
        mu0 == RDiv(RSum([t \in 0..(n - 1) |-> RInt(s[q][t])], n), RInt(n))
    IN  RSum([t \in 0..(n - 1) |->
                RMul(RSub(RInt(s[p][t + 1]), mu1), RSub(RInt(s[q][t]), mu0))], n)

\* the sum over the T samples t of (ts[p][t] - m[p]) * (ts[q][t] - m[q])
EqSum(s, p, q) ==
    LET n == LenOf(s)
        mm == MeanAxis1(s)
    IN  RSum([t \in 0..(n - 1) |->
                RMul(RSub(RInt(s[p][t]), mm[p]), RSub(RInt(s[q][t]), mm[q]))], n)

\* fit has computed D
HasD == loc.D # Unset

\* C6 (as claimed): D[p,q] is the sum of the T-1 aligned products divided
\* by T.
ClaimC6 ==
    HasD => \A p, q \in NodesOf(ts) :
                loc.D[p][q] = RDiv(LagSum(ts, p, q), RInt(LenOf(ts)))

\* C6 (amended): D[p,q] is the sum of the T-1 aligned products divided by
\* T-1, the number of aligned samples.
InvC6 ==
    HasD => \A p, q \in NodesOf(ts) :
                loc.D[p][q] = RDiv(LagSum(ts, p, q), RInt(LenOf(ts) - 1))

\* a D with a non-zero entry, so that the divisor shows
WitC6 == HasD /\ loc.D[0][1] # Zero /\ LenOf(ts) = 3

\* a call has returned its graph
Returns == pc = "idle" /\ ret.kind = "return"

\* the lagged cross-covariance between the two nodes of ts is zero
LagZero == LagSum(ts, 0, 1) = Zero /\ LagSum(ts, 1, 0) = Zero

\* the final W has no coupling between the two nodes
OffDiagonalZero == results.matrix[0][1] = Zero /\ results.matrix[1][0] = Zero

\* C7 (as claimed): zero lagged cross-covariance between the two nodes
\* gives W[0,1] = W[1,0] = 0.
ClaimC7 == (Returns /\ LagZero) => OffDiagonalZero

\* C7 (amended): zero lagged cross-covariance and zero equal-time
\* covariance between the two nodes give W[0,1] = W[1,0] = 0.
InvC7 == (Returns /\ LagZero /\ EqSum(ts, 0, 1) = Zero) => OffDiagonalZero

\* such a series, with a non-zero W left on the diagonal
WitC7 ==
    /\ Returns /\ LagZero /\ EqSum(ts, 0, 1) = Zero
    /\ OffDiagonalZero
    /\ results.matrix[1][1] # Zero

\* C8: once a call has returned, results['matrix'] is the W of that call,
\* results['graph'] is the graph that call built from the same W, and the
\* call returned that very graph object.
InvC8 ==
    Returns =>
        /\ results.matrix = loc.W
        /\ results.graph = FromNumpyArray(loc.W, calls)
        /\ ret.graph = results.graph

\* a second successful call whose W differs from the first call's
WitC8 ==
    /\ Returns
    /\ calls = 2
    /\ pre.matrix # Unset
    /\ pre.matrix # results.matrix

\* the statements of a call that come before line 105
BeforeStores == {"moments", "inv", "lagged", "nmf", "tap", "assemble", "store_graph"}

\* C10: a call whose C is singular ends with the LinAlgError at its caller
\* and self.results as it was on entry; no call touches self.results before
\* its last statements.
InvC10 ==
    /\ (pc = "idle" /\ calls > 0 /\ IsSingular(loc.C))
          => (ret = Raised(LinAlgError) /\ results = pre)
    /\ pc \in BeforeStores => results = pre

\* a singular call after a successful one: the earlier results are kept
WitC10 ==
    /\ pc = "idle"
    /\ ret.kind = "raise"
    /\ results.matrix # Unset
    /\ results.graph.obj = 1
    /\ calls = 2

\* C9 (as claimed): a scan is left with y still negative only when
\* temp[i] > 4/27; for 0 <= temp[i] <= 4/27 it is left with y >= 0.
ClaimC9 == (LoopLeft /\ YNeg(y)) => RLess(Rat(4, 27), temp[i])

\* the largest value x * (1-x)**2 takes on the scanned grid, at x = 0.331
GridMax == GridValue(331)

\* C9 (amended): a scan is left with y still negative exactly when temp[i]
\* exceeds 0.331 * 0.669**2 = 0.148142691, the largest scanned value; for
\* 0 <= temp[i] <= 0.148142691 it is left with y >= 0 within its 332 steps.
InvC9 ==
    LoopLeft => /\ (YNeg(y) <=> RLess(GridMax, temp[i]))
                /\ iloop <= 332

\* saturation below 4/27, and a stop on the very last step
WitC9 ==
    /\ LoopLeft
    /\ temp[i] = Rat(148145, 1000000) /\ YNeg(y) /\ iloop = 332
    /\ \E n \in DOMAIN F : temp[n] = GridMax /\ F[n] = Rat(331, 1000)

====
